---- MODULE Spec2Model ----
(***************************************************************************)
(* A model of src/converter.py and src/parameters.py: the conversion       *)
(* pipeline convert_las_to_3dtiles and the two manifest repair passes      *)
(* rewrite_child_tileset_uris_if_needed (Pass A) and                       *)
(* normalize_sub_tileset_uris_in_points (Pass B).                          *)
(*                                                                         *)
(* Strings the code inspects (uris, file names) are sequences of           *)
(* one-character strings, so startswith / endswith / "in" / slicing are     *)
(* computed on characters.  JSON values are tagged records; a JSON object  *)
(* is [t |-> "dict", kv |-> <record of its keys>].  Uris are relative      *)
(* paths without "." or ".." segments, as the engine writes them.          *)
(***************************************************************************)
EXTENDS Integers, Sequences, FiniteSets, TLC

VARIABLES pc, fs, env, req, loc, outcome, hist

vars == <<pc, fs, env, req, loc, outcome, hist>>

(***************************************************************************)
(* Bounds of the generated inputs.                                         *)
(***************************************************************************)
MaxDepth == 1
MaxContents == 2

(***************************************************************************)
(* String literals of the code, and the str methods it uses.               *)
(***************************************************************************)
TILESET_DOT == <<"t","i","l","e","s","e","t",".">>
DOT_JSON == <<".","j","s","o","n">>
POINTS_SLASH == <<"p","o","i","n","t","s","/">>
SLASH == "/"
TILESET_JSON == <<"t","i","l","e","s","e","t",".","j","s","o","n">>

startswith(s, p) == Len(s) >= Len(p) /\ SubSeq(s, 1, Len(p)) = p

endswith(s, p) == Len(s) >= Len(p) /\ SubSeq(s, Len(s) - Len(p) + 1, Len(s)) = p

contains(s, ch) == \E i \in 1..Len(s) : s[i] = ch

\* uri_val[len("points/") :]
trim_points(s) == SubSeq(s, Len(POINTS_SLASH) + 1, Len(s))

\* f"points/{uri_val}"
prefix_points(s) == POINTS_SLASH \o s

\* pathlib's match of one path component against the pattern "tileset.*.json":
\* "*" stands for any run of characters, the empty one included.
glob_tileset_star_json(name) ==
    /\ ~contains(name, SLASH)
    /\ Len(name) >= Len(TILESET_DOT) + Len(DOT_JSON)
    /\ startswith(name, TILESET_DOT)
    /\ endswith(name, DOT_JSON)

(***************************************************************************)
(* JSON values.                                                            *)
(***************************************************************************)
JNull == [t |-> "null"]
JNum(n) == [t |-> "num", n |-> n]
JStr(s) == [t |-> "str", s |-> s]
JList(xs) == [t |-> "list", xs |-> xs]
JDict(kv) == [t |-> "dict", kv |-> kv]

isdict(v) == v.t = "dict"
islist(v) == v.t = "list"
isstr(v) == v.t = "str"

\* dict.get(key): None when the key is absent
get(d, key) == IF key \in DOMAIN d.kv THEN d.kv[key] ELSE JNull

\* obj[key] = val on a dict that has the key
setkey(d, key, val) == JDict([d.kv EXCEPT ![key] = val])

(***************************************************************************)
(* Files of the output directory.  fs.root is <output>/tileset.json,       *)
(* fs.log is <output>/tiles_log.txt, fs.ptsKind says what <output>/points  *)
(* is, fs.pts maps each path below points/ to its entry, fs.misc says      *)
(* whether an unrelated file of an earlier run lies in the directory.      *)
(***************************************************************************)
NoFile == [k |-> "none"]
BadFile == [k |-> "bad"]
BinFile == [k |-> "bin"]
DirEntry == [k |-> "dir"]
JsonFile(fmt, doc) == [k |-> "json", fmt |-> fmt, doc |-> doc]
LogFile(text) == [k |-> "log", text |-> text]

NoDir == [out |-> FALSE, root |-> NoFile, log |-> NoFile, ptsKind |-> "none",
          pts |-> <<>>, misc |-> FALSE]
EmptyDir == [NoDir EXCEPT !.out = TRUE]

\* main_tileset.exists() / tileset_json.exists()
tileset_json_exists(f) == f.root.k # "none"

\* json.load(f): a document, or an exception for anything that is not JSON text
json_load(file) ==
    IF file.k = "json" THEN [raised |-> FALSE, data |-> file.doc]
    ELSE [raised |-> TRUE, data |-> JNull]

\* json.dump(data, f, separators=(",", ":")) into a file opened with "w".  The
\* environment decides whether the write goes through, is refused when the
\* file is opened (the file keeps its bytes), or breaks off after the file was
\* truncated (the file is left with text that is not JSON).
json_dump(file, data, path, e) ==
    IF path \notin e.wfail THEN [raised |-> FALSE, file |-> JsonFile("compact", data)]
    ELSE IF e.wmode = "denied" THEN [raised |-> TRUE, file |-> file]
    ELSE [raised |-> TRUE, file |-> BadFile]

\* candidate.exists() and candidate.is_file() for candidate = points_dir / rel;
\* "raised" when the environment fails the stat of that path.
points_is_file(f, rel, e) ==
    [raised |-> rel \in e.statErr,
     val |-> /\ f.ptsKind = "dir"
             /\ rel \in DOMAIN f.pts
             /\ f.pts[rel].k \in {"json", "bad", "bin"}]

(***************************************************************************)
(* Pass A: rewrite_child_tileset_uris_if_needed.                           *)
(***************************************************************************)
\* A walk returns the value as rewritten (v) and whether it set `modified` (m).
same(v) == [v |-> v, m |-> FALSE]

\* maybe_fix_uri without the test that the candidate exists
maybe_fix_uri_unchecked(obj, f, e) ==
    IF ~isdict(obj) THEN same(obj)
    ELSE IF ~isstr(get(obj, "uri")) THEN same(obj)
    ELSE IF /\ startswith(get(obj, "uri").s, TILESET_DOT)
            /\ endswith(get(obj, "uri").s, DOT_JSON)
            /\ ~contains(get(obj, "uri").s, SLASH)
         THEN [v |-> setkey(obj, "uri", JStr(prefix_points(get(obj, "uri").s))), m |-> TRUE]
    ELSE same(obj)

\* maybe_fix_uri with `modified = True` one level out, beside the existence test
maybe_fix_uri_flag_outside(obj, f, e) ==
    IF ~isdict(obj) THEN same(obj)
    ELSE IF ~isstr(get(obj, "uri")) THEN same(obj)
    ELSE IF /\ startswith(get(obj, "uri").s, TILESET_DOT)
            /\ endswith(get(obj, "uri").s, DOT_JSON)
            /\ ~contains(get(obj, "uri").s, SLASH)
         THEN IF /\ ~points_is_file(f, get(obj, "uri").s, e).raised
                 /\ points_is_file(f, get(obj, "uri").s, e).val
              THEN [v |-> setkey(obj, "uri", JStr(prefix_points(get(obj, "uri").s))),
                    m |-> TRUE]
              ELSE [v |-> obj, m |-> TRUE]
    ELSE same(obj)

maybe_fix_uri(obj, f, e) ==
    IF ~isdict(obj) THEN same(obj)
    ELSE LET uri_val == get(obj, "uri") IN
         IF ~isstr(uri_val) THEN same(obj)
         ELSE IF /\ startswith(uri_val.s, TILESET_DOT)
                 /\ endswith(uri_val.s, DOT_JSON)
                 /\ ~contains(uri_val.s, SLASH)
              THEN LET chk == points_is_file(f, uri_val.s, e) IN
                   IF ~chk.raised /\ chk.val
                   THEN [v |-> setkey(obj, "uri", JStr(prefix_points(uri_val.s))),
                         m |-> TRUE]
                   ELSE same(obj)
              ELSE same(obj)

\* node[key] replaced by the rewritten value s.v, `modified` set if s set it
put(r, key, s) == [v |-> setkey(r.v, key, s.v), m |-> r.m \/ s.m]

\* lines 104-106: content = node.get("content")
walk_content(r, f, e) ==
    IF isdict(get(r.v, "content"))
    THEN put(r, "content", maybe_fix_uri(get(r.v, "content"), f, e))
    ELSE r

\* lines 107-111: for c in contents (maybe_fix_uri leaves what is no dict)
fix_each_uri(xs, f, e) ==
    LET rs == [i \in 1..Len(xs) |-> maybe_fix_uri(xs[i], f, e)]
    IN [v |-> JList([i \in 1..Len(xs) |-> rs[i].v]), m |-> \E i \in 1..Len(xs) : rs[i].m]

walk_contents(r, f, e) ==
    IF islist(get(r.v, "contents"))
    THEN put(r, "contents", fix_each_uri(get(r.v, "contents").xs, f, e))
    ELSE r

RECURSIVE walk(_, _, _)

\* lines 112-116: for child in children (walk leaves what is no dict)
walk_each(xs, f, e) ==
    LET rs == [i \in 1..Len(xs) |-> walk(xs[i], f, e)]
    IN [v |-> JList([i \in 1..Len(xs) |-> rs[i].v]), m |-> \E i \in 1..Len(xs) : rs[i].m]

walk_children(r, f, e) ==
    IF islist(get(r.v, "children"))
    THEN put(r, "children", walk_each(get(r.v, "children").xs, f, e))
    ELSE r

walk(node, f, e) ==
    IF ~isdict(node) THEN same(node)
    ELSE walk_children(walk_contents(walk_content(same(node), f, e), f, e), f, e)

\* lines 76-80 without the try: a load failure leaves the function
load_main_tileset_unguarded(f) ==
    [failed |-> FALSE, escaped |-> json_load(f.root).raised, data |-> json_load(f.root).data]

\* lines 76-80: the load inside try / except Exception: return False
load_main_tileset(f) ==
    [failed |-> json_load(f.root).raised, escaped |-> FALSE, data |-> json_load(f.root).data]

\* data.get("root", {})
get_root(data) == IF "root" \in DOMAIN data.kv THEN data.kv["root"] ELSE JDict(<<>>)

\* data after the walk rewrote the tree under "root" in place
with_root(data, root) == IF "root" \in DOMAIN data.kv THEN setkey(data, "root", root) ELSE data

\* lines 124-131: the write-back and the value returned
write_back_main(f, data, e) ==
    LET wr == json_dump(f.root, data, TILESET_JSON, e)
    IN [ret |-> ~wr.raised, exc |-> FALSE, fs |-> [f EXCEPT !.root = wr.file]]

\* The result of a pass: what it returns (ret), whether an exception left it
\* (exc), and the output directory afterwards (fs).
rewrite_child_tileset_uris_if_needed(f, e) ==
    IF ~tileset_json_exists(f) THEN [ret |-> FALSE, exc |-> FALSE, fs |-> f]
    ELSE IF load_main_tileset(f).escaped THEN [ret |-> FALSE, exc |-> TRUE, fs |-> f]
    ELSE IF load_main_tileset(f).failed THEN [ret |-> FALSE, exc |-> FALSE, fs |-> f]
    \* data.get on a value that is no dict raises inside the try of lines 118-122
    ELSE IF ~isdict(load_main_tileset(f).data) THEN [ret |-> FALSE, exc |-> FALSE, fs |-> f]
    ELSE LET w == walk(get_root(load_main_tileset(f).data), f, e)
         IN IF w.m THEN write_back_main(f, with_root(load_main_tileset(f).data, w.v), e)
            ELSE [ret |-> FALSE, exc |-> FALSE, fs |-> f]

(***************************************************************************)
(* Pass B: normalize_sub_tileset_uris_in_points.                           *)
(***************************************************************************)
\* maybe_fix that tests the uri as written, not the trimmed one
maybe_fix_untrimmed_check(obj, f, e) ==
    IF ~isdict(obj) THEN same(obj)
    ELSE IF isstr(get(obj, "uri")) /\ startswith(get(obj, "uri").s, POINTS_SLASH)
         THEN IF /\ ~points_is_file(f, get(obj, "uri").s, e).raised
                 /\ points_is_file(f, get(obj, "uri").s, e).val
              THEN [v |-> setkey(obj, "uri", JStr(trim_points(get(obj, "uri").s))), m |-> TRUE]
              ELSE same(obj)
    ELSE same(obj)

maybe_fix(obj, f, e) ==
    IF ~isdict(obj) THEN same(obj)
    ELSE LET uri_val == get(obj, "uri") IN
         IF isstr(uri_val) /\ startswith(uri_val.s, POINTS_SLASH)
         THEN LET trimmed == trim_points(uri_val.s)
                  chk == points_is_file(f, trimmed, e)
              IN IF ~chk.raised /\ chk.val
                 THEN [v |-> setkey(obj, "uri", JStr(trimmed)), m |-> TRUE]
                 ELSE same(obj)
         ELSE same(obj)

\* lines 171-173
points_walk_content(r, f, e) ==
    IF isdict(get(r.v, "content"))
    THEN put(r, "content", maybe_fix(get(r.v, "content"), f, e))
    ELSE r

\* lines 174-178
fix_each(xs, f, e) ==
    LET rs == [i \in 1..Len(xs) |-> maybe_fix(xs[i], f, e)]
    IN [v |-> JList([i \in 1..Len(xs) |-> rs[i].v]), m |-> \E i \in 1..Len(xs) : rs[i].m]

points_walk_contents(r, f, e) ==
    IF islist(get(r.v, "contents"))
    THEN put(r, "contents", fix_each(get(r.v, "contents").xs, f, e))
    ELSE r

RECURSIVE walk_in_points(_, _, _)

\* lines 179-183
points_walk_each(xs, f, e) ==
    LET rs == [i \in 1..Len(xs) |-> walk_in_points(xs[i], f, e)]
    IN [v |-> JList([i \in 1..Len(xs) |-> rs[i].v]), m |-> \E i \in 1..Len(xs) : rs[i].m]

points_walk_children(r, f, e) ==
    IF islist(get(r.v, "children"))
    THEN put(r, "children", points_walk_each(get(r.v, "children").xs, f, e))
    ELSE r

walk_in_points(node, f, e) ==
    IF ~isdict(node) THEN same(node)
    ELSE points_walk_children(
             points_walk_contents(points_walk_content(same(node), f, e), f, e), f, e)

\* fix_uris_in_data: the data as rewritten in memory and the flag it returns
fix_uris_in_data(data, f, e) ==
    IF ~isdict(data) THEN same(data)
    ELSE LET root == IF "root" \in DOMAIN data.kv THEN data.kv["root"] ELSE JDict(<<>>)
             w == walk_in_points(root, f, e)
         IN [v |-> IF "root" \in DOMAIN data.kv THEN setkey(data, "root", w.v) ELSE data,
             m |-> w.m]

\* The files the loop visits: points_dir.glob("tileset.*.json")
glob_points(f) == {name \in DOMAIN f.pts : glob_tileset_star_json(name)}

\* One turn of the loop over ts_file: the file afterwards and whether
\* modified_count was incremented.
fix_ts_file(name, f, e) ==
    LET file == f.pts[name]
        ld == json_load(file)
    IN IF ld.raised THEN [file |-> file, counted |-> FALSE]
       ELSE LET r == fix_uris_in_data(ld.data, f, e) IN
            IF r.m
            THEN LET wr == json_dump(file, r.v, prefix_points(name), e)
                 IN [file |-> wr.file, counted |-> ~wr.raised]
            ELSE [file |-> file, counted |-> FALSE]

normalize_sub_tileset_uris_in_points(f, e) ==
    IF f.ptsKind # "dir" THEN [ret |-> 0, exc |-> FALSE, fs |-> f]
    ELSE LET g == glob_points(f)
             r == [name \in g |-> fix_ts_file(name, f, e)]
         IN [ret |-> Cardinality({name \in g : r[name].counted}),
             exc |-> FALSE,
             fs |-> [f EXCEPT !.pts = [p \in DOMAIN f.pts |->
                                        IF p \in g THEN r[p].file ELSE f.pts[p]]]]

(***************************************************************************)
(* Inputs: uris, reference objects, manifests and points/ layouts.          *)
(***************************************************************************)
MaxRuns == 2

U_T1 == TILESET_DOT \o <<"1">> \o DOT_JSON
U_T2 == TILESET_DOT \o <<"2">> \o DOT_JSON
U_PT1 == POINTS_SLASH \o U_T1
U_MESH == <<"m","e","s","h","/","t","i","l","e","_","0",".","b","3","d","m">>
U_TSL == TILESET_DOT \o <<"d","/","a">> \o DOT_JSON

\* A reference object with a uri and one more field
Ref(u) == JDict([uri |-> u, boundingVolume |-> JNum(1)])
\* A reference object without "uri", and a reference that is no object
RefNoUri == JDict([url |-> JStr(U_T1)])
RefNonDict == JStr(U_T1)

UriPoolA == {JStr(U_T1), JStr(U_T2), JStr(U_PT1), JStr(U_MESH), JStr(U_TSL), JNum(7)}
RefPoolA == {Ref(u) : u \in UriPoolA} \cup {RefNoUri, RefNonDict}

\* A tree of depth d: content a, contents alternating b, a, ..., and below it
\* one child tree with a and b swapped, beside a child that is no object.
RECURSIVE Node(_, _, _, _)
Node(d, a, b, n) ==
    LET cs == [i \in 1..n |-> IF i % 2 = 1 THEN b ELSE a] IN
    IF d = 0
    THEN JDict([content |-> a, contents |-> JList(cs), geometricError |-> JNum(1),
                uri |-> JStr(U_T1)])
    ELSE JDict([content |-> a, contents |-> JList(cs), geometricError |-> JNum(1),
                uri |-> JStr(U_T1),
                children |-> JList(<<Node(d - 1, b, a, n), JStr(U_T1)>>)])

Top(root) == JDict([asset |-> JNum(1), root |-> root])

\* Manifests that parse but are not shaped as the walk expects
OddDocs(r) ==
    { JList(<<r>>),
      JDict([asset |-> JNum(1), content |-> r]),
      Top(JStr(U_T1)),
      Top(JDict([content |-> r, contents |-> r, children |-> r])),
      Top(JDict([children |-> JList(<<JDict([contents |-> JList(<<r>>)])>>)])) }

RootDocsA ==
    {Top(Node(d, a, b, MaxContents)) :
        d \in 0..MaxDepth,
        a \in RefPoolA,
        b \in {Ref(JStr(U_T1)), Ref(JStr(U_T2)), Ref(JStr(U_PT1)), Ref(JStr(U_MESH))}}
    \cup OddDocs(Ref(JStr(U_T1)))

RootFilesA ==
    {NoFile, BadFile} \cup {JsonFile("asis", doc) : doc \in RootDocsA}

PointsA ==
    {[ptsKind |-> "none", pts |-> <<>>], [ptsKind |-> "file", pts |-> <<>>]}
    \cup {[ptsKind |-> "dir",
           pts |-> [p \in S \cup (IF t2 = "none" THEN {} ELSE {U_T2}) |->
                      IF p = U_T2 /\ t2 = "dir" THEN DirEntry
                      ELSE IF p = U_MESH THEN BinFile
                      ELSE JsonFile("asis", Top(Node(0, Ref(JStr(U_MESH)), RefNoUri, 0)))]] :
          S \in SUBSET {U_T1, U_MESH, U_TSL}, t2 \in {"none", "dir", "file"}}

NoFault == [statErr |-> {}, wfail |-> {}, wmode |-> "denied"]
WriteFaults(paths) ==
    {NoFault} \cup {[statErr |-> {}, wfail |-> paths, wmode |-> m] : m \in {"denied", "partial"}}

(***************************************************************************)
(* Pass A run on its own, up to MaxRuns times in a row on one directory.    *)
(***************************************************************************)
InitPassA ==
    /\ pc = "passA"
    /\ \E rf \in RootFilesA, p \in PointsA :
          fs = [out |-> TRUE, root |-> rf, log |-> NoFile, ptsKind |-> p.ptsKind,
                pts |-> p.pts, misc |-> FALSE]
    /\ env \in WriteFaults({TILESET_JSON})
    /\ req = "none"
    /\ loc = "none"
    /\ outcome = "none"
    /\ hist = <<>>

RunPassA ==
    /\ pc = "passA"
    /\ Len(hist) < MaxRuns
    /\ LET r == rewrite_child_tileset_uris_if_needed(fs, env) IN
         /\ fs' = r.fs
         /\ hist' = Append(hist, [pre |-> fs, ret |-> r.ret, exc |-> r.exc])
    /\ UNCHANGED <<pc, env, req, loc, outcome>>

NextPassA == RunPassA

SpecPassA == InitPassA /\ [][NextPassA]_vars

(***************************************************************************)
(* Pass B run on its own, up to MaxRuns times in a row on one directory.    *)
(***************************************************************************)
U_TILE7 == <<"t","i","l","e","_","7",".","p","n","t","s">>
U_PTILE7 == POINTS_SLASH \o U_TILE7
U_PPTILE7 == POINTS_SLASH \o U_PTILE7
U_PT2 == POINTS_SLASH \o U_T2
U_T3 == TILESET_DOT \o <<"3">> \o DOT_JSON
U_BACKUP == TILESET_DOT \o <<"b","a","c","k","u","p">> \o DOT_JSON
U_SUB3 == <<"s","u","b","/">> \o U_T3

UriPoolB == {JStr(U_TILE7), JStr(U_PTILE7), JStr(U_PPTILE7), JStr(POINTS_SLASH),
             JStr(U_PT2), JNum(7)}
RefPoolB == {Ref(u) : u \in UriPoolB} \cup {RefNoUri, RefNonDict}

AuxDocsB ==
    {Top(Node(MaxDepth, a, b, MaxContents)) :
        a \in RefPoolB,
        b \in {Ref(JStr(U_PTILE7)), Ref(JStr(U_PPTILE7)), Ref(JStr(POINTS_SLASH))}}
    \cup OddDocs(Ref(JStr(U_PTILE7)))

\* A manifest whose one reference carries the redundant prefix
Redundant == JsonFile("asis", Top(Node(0, Ref(JStr(U_PTILE7)), RefNoUri, 0)))

\* The function g extended by path p with entry x, unless x is NoFile
With(g, p, x) == IF x = NoFile THEN g ELSE (p :> x) @@ g

PointsB ==
    {[ptsKind |-> "none", pts |-> <<>>], [ptsKind |-> "file", pts |-> <<>>]}
    \cup {[ptsKind |-> "dir",
           pts |-> With(With(With(With(With(With(With(<<>>,
                     U_T1, t1), U_T2, t2), U_T3, t3), U_BACKUP, ex), U_SUB3, ex),
                     U_TILE7, p7), U_PTILE7, pp7)] :
          t1 \in {NoFile, BadFile} \cup {JsonFile("asis", d) : d \in AuxDocsB},
          t2 \in {NoFile, DirEntry, Redundant},
          t3 \in {NoFile, BadFile},
          ex \in {NoFile, Redundant},
          p7 \in {NoFile, BinFile},
          pp7 \in {NoFile, BinFile}}

InitPassB ==
    /\ pc = "passB"
    /\ \E p \in PointsB :
          fs = [out |-> TRUE, root |-> Redundant, log |-> NoFile, ptsKind |-> p.ptsKind,
                pts |-> p.pts, misc |-> FALSE]
    /\ env \in WriteFaults({POINTS_SLASH \o U_T1})
    /\ req = "none"
    /\ loc = "none"
    /\ outcome = "none"
    /\ hist = <<>>

RunPassB ==
    /\ pc = "passB"
    /\ Len(hist) < MaxRuns
    /\ LET r == normalize_sub_tileset_uris_in_points(fs, env) IN
         /\ fs' = r.fs
         /\ hist' = Append(hist, [pre |-> fs, ret |-> r.ret, exc |-> r.exc])
    /\ UNCHANGED <<pc, env, req, loc, outcome>>

NextPassB == RunPassB

SpecPassB == InitPassB /\ [][NextPassB]_vars

(***************************************************************************)
(* The conversion request, as Parameters.from_args and a direct caller of   *)
(* convert_las_to_3dtiles build it.                                         *)
(***************************************************************************)
PyNone == "<None>"

\* Python's truth value of an Optional[str]
truthy(x) == x # PyNone /\ x # ""

\* srs_out = parsed.srs_out if parsed.srs_out else None
from_args_srs_out(parsed) == IF truthy(parsed) THEN parsed ELSE PyNone

InputPaths == {"cloud.las", "cloud.laz"}
suffix_lower(path) == IF path = "cloud.laz" THEN ".laz" ELSE ".las"
with_suffix_las(path) == "cloud.las"

Requests ==
    [input_path : InputPaths,
     extra_fields : {PyNone, "", "PredInstance"},
     srs_out : {from_args_srs_out(a) : a \in {"", "4978"}} \cup {""},
     overwrite : BOOLEAN]

(***************************************************************************)
(* What convert_las_to_3dtiles calls before it runs the engine.             *)
(***************************************************************************)
\* output_dir.mkdir(parents=True, exist_ok=True)
mkdir(f) == IF f.out THEN f ELSE EmptyDir

\* shutil.rmtree(output_dir)
rmtree(f) == NoDir

\* uncompress_laz_to_las: sibling is what lies at the .las path ("none", "fresh":
\* not older than the .laz, "stale"), decode whether laspy reads and writes it.
uncompress_laz_to_las(laz_path, sibling, decode) ==
    IF sibling = "fresh" THEN [raised |-> FALSE, path |-> with_suffix_las(laz_path)]
    ELSE IF decode THEN [raised |-> FALSE, path |-> with_suffix_las(laz_path)]
    ELSE [raised |-> TRUE, path |-> laz_path]

\* resolve_py3dtiles_executable: adjacent says whether py3dtiles lies beside the
\* interpreter, found what which("py3dtiles") returns.
resolve_py3dtiles_executable(adjacent, found) ==
    IF adjacent THEN [raised |-> FALSE, path |-> "venv/bin/py3dtiles"]
    ELSE IF ~truthy(found) THEN [raised |-> TRUE, path |-> ""]
    ELSE [raised |-> FALSE, path |-> found]

\* build_cmd with the transform flags decided by srs_out alone
build_cmd_ignoring_crs(exe, output_dir, has_crs, srs_out, extra_fields, tiles_input) ==
    <<exe, "convert", "--out", output_dir>>
    \o (IF truthy(srs_out) THEN <<"--srs_out", srs_out, "--pyproj-always-xy">> ELSE <<>>)
    \o (IF truthy(extra_fields) THEN <<"--extra-fields", extra_fields>> ELSE <<>>)
    \o <<tiles_input>>

\* The command line of lines 267-290
build_cmd(exe, output_dir, has_crs, srs_out, extra_fields, tiles_input) ==
    <<exe, "convert", "--out", output_dir>>
    \o (IF has_crs /\ truthy(srs_out) THEN <<"--srs_out", srs_out, "--pyproj-always-xy">>
        ELSE <<>>)
    \o (IF truthy(extra_fields) THEN <<"--extra-fields", extra_fields>> ELSE <<>>)
    \o <<tiles_input>>

OUTPUT_DIR == "out"

(***************************************************************************)
(* The directory the call finds, what the engine may leave in it, and the   *)
(* faults of the file system during the repair passes.                      *)
(***************************************************************************)
StaleDir ==
    [out |-> TRUE, root |-> Redundant, log |-> LogFile("old run"), ptsKind |-> "dir",
     pts |-> (U_TILE7 :> BinFile), misc |-> TRUE]

PriorDirs == {NoDir, EmptyDir, StaleDir}

NoWrite == [k |-> "nowrite"]

EngineRoots ==
    {NoWrite, BadFile, JsonFile("asis", JList(<<Ref(JStr(U_T1))>>)),
     JsonFile("asis", Top(Node(MaxDepth, Ref(JStr(U_T1)), Ref(JStr(U_MESH)), MaxContents)))}

EnginePoints ==
    {[k |-> "nowrite"],
     [k |-> "write", ptsKind |-> "file", pts |-> <<>>],
     [k |-> "write", ptsKind |-> "dir",
      pts |-> (U_T1 :> Redundant) @@ (U_T2 :> BadFile) @@ (U_TILE7 :> BinFile)]}

RepairFaults ==
    {NoFault,
     [statErr |-> {U_T1, U_TILE7}, wfail |-> {}, wmode |-> "denied"],
     [statErr |-> {}, wfail |-> {TILESET_JSON, POINTS_SLASH \o U_T1}, wmode |-> "denied"],
     [statErr |-> {}, wfail |-> {TILESET_JSON, POINTS_SLASH \o U_T1}, wmode |-> "partial"]}

(***************************************************************************)
(* convert_las_to_3dtiles, statement by statement.                          *)
(***************************************************************************)
Init ==
    /\ pc = "mkdir"
    /\ fs \in PriorDirs
    /\ env = NoFault
    /\ req \in Requests
    /\ loc = [tiles_input |-> "", has_crs |-> FALSE, exe |-> "", cmd |-> <<>>,
              returncode |-> -1, stdout |-> "", modified_main |-> FALSE,
              normalized_count |-> -1]
    /\ outcome = "running"
    /\ hist = [fs0 |-> fs, launched |-> FALSE, produced |-> FALSE, rootAtCheck |-> FALSE,
               preA |-> NoDir, preB |-> NoDir, ranA |-> FALSE, ranB |-> FALSE,
               excA |-> FALSE, excB |-> FALSE]

\* line 233
MakeOutputDir ==
    /\ pc = "mkdir"
    /\ fs' = mkdir(fs)
    /\ pc' = "overwrite"
    /\ UNCHANGED <<env, req, loc, outcome, hist>>

\* lines 236-240
ClearOutputDir ==
    /\ pc = "overwrite"
    /\ fs' = IF req.overwrite THEN mkdir(IF fs.out THEN rmtree(fs) ELSE fs) ELSE fs
    /\ pc' = "normalize"
    /\ UNCHANGED <<env, req, loc, outcome, hist>>

\* lines 243-249
NormalizeInput ==
    /\ pc = "normalize"
    /\ \E sibling \in {"none", "fresh", "stale"}, decode \in BOOLEAN :
         LET r == uncompress_laz_to_las(req.input_path, sibling, decode) IN
         loc' = [loc EXCEPT !.tiles_input =
                    IF suffix_lower(req.input_path) = ".laz" /\ ~r.raised THEN r.path
                    ELSE req.input_path]
    /\ pc' = "detect_crs"
    /\ UNCHANGED <<fs, env, req, outcome, hist>>

\* lines 252-261: laspy.read may raise, parse_crs may raise or return None
DetectCrs ==
    /\ pc = "detect_crs"
    /\ \E read \in BOOLEAN, crs \in {"raise", "none", "crs"} :
         loc' = [loc EXCEPT !.has_crs = read /\ crs = "crs"]
    /\ pc' = "resolve"
    /\ UNCHANGED <<fs, env, req, outcome, hist>>

\* line 264
ResolveExecutable ==
    /\ pc = "resolve"
    /\ \E adjacent \in BOOLEAN, found \in {PyNone, "/usr/bin/py3dtiles"} :
         LET r == resolve_py3dtiles_executable(adjacent, found) IN
         IF r.raised
         THEN /\ outcome' = "tool_not_found" /\ pc' = "done" /\ loc' = loc
         ELSE /\ outcome' = outcome /\ pc' = "build_cmd"
              /\ loc' = [loc EXCEPT !.exe = r.path]
    /\ UNCHANGED <<fs, env, req, hist>>

\* lines 267-290
BuildCommand ==
    /\ pc = "build_cmd"
    /\ loc' = [loc EXCEPT !.cmd = build_cmd(loc.exe, OUTPUT_DIR, loc.has_crs, req.srs_out,
                                            req.extra_fields, loc.tiles_input)]
    /\ pc' = "run"
    /\ UNCHANGED <<fs, env, req, outcome, hist>>

\* line 293: the engine runs to its end; it may write a root manifest and a
\* points/ folder into the output directory, and exits with some code.
RunEngine ==
    /\ pc = "run"
    /\ \E rc \in {0, 1}, r \in EngineRoots, p \in EnginePoints :
         /\ fs' = [fs EXCEPT !.root = IF r = NoWrite THEN @ ELSE r,
                             !.ptsKind = IF p.k = "nowrite" THEN @ ELSE p.ptsKind,
                             !.pts = IF p.k = "nowrite" THEN @ ELSE p.pts]
         /\ loc' = [loc EXCEPT !.returncode = rc,
                               !.stdout = IF rc = 0 THEN "engine: done" ELSE "engine: error"]
         /\ hist' = [hist EXCEPT !.launched = TRUE, !.produced = (r # NoWrite)]
    /\ pc' = "write_log"
    /\ UNCHANGED <<env, req, outcome>>

\* the log written only where none lies yet
write_log_if_absent(f, text) == IF f.log.k = "log" THEN f ELSE [f EXCEPT !.log = LogFile(text)]

\* lines 296-297
write_log(f, text) == [f EXCEPT !.log = LogFile(text)]

WriteLog ==
    /\ pc = "write_log"
    /\ fs' = write_log(fs, loc.stdout)
    /\ pc' = "check_rc"
    /\ UNCHANGED <<env, req, loc, outcome, hist>>

\* lines 300-301
CheckExitCode ==
    /\ pc = "check_rc"
    /\ IF loc.returncode # 0
       THEN outcome' = "execution_failed" /\ pc' = "done"
       ELSE outcome' = outcome /\ pc' = "check_manifest"
    /\ UNCHANGED <<fs, env, req, loc, hist>>

\* lines 303-305
CheckManifest ==
    /\ pc = "check_manifest"
    /\ IF ~tileset_json_exists(fs)
       THEN outcome' = "missing_output" /\ pc' = "done" /\ hist' = hist
       ELSE outcome' = outcome /\ pc' = "passA"
            /\ hist' = [hist EXCEPT !.rootAtCheck = TRUE]
    /\ UNCHANGED <<fs, env, req, loc>>

\* line 309, inside the try of lines 308-313: an exception leaving the pass
\* skips line 310 and is swallowed.
RepairRoot ==
    /\ pc = "passA"
    /\ \E e \in RepairFaults :
         LET r == rewrite_child_tileset_uris_if_needed(fs, e) IN
         /\ env' = e
         /\ fs' = r.fs
         /\ loc' = IF r.exc THEN loc ELSE [loc EXCEPT !.modified_main = r.ret]
         /\ hist' = [hist EXCEPT !.preA = fs, !.ranA = TRUE, !.excA = r.exc]
         /\ pc' = IF r.exc THEN "return" ELSE "passB"
    /\ UNCHANGED <<req, outcome>>

\* line 310
RepairPoints ==
    /\ pc = "passB"
    /\ LET r == normalize_sub_tileset_uris_in_points(fs, env) IN
         /\ fs' = r.fs
         /\ loc' = IF r.exc THEN loc ELSE [loc EXCEPT !.normalized_count = r.ret]
         /\ hist' = [hist EXCEPT !.preB = fs, !.ranB = TRUE, !.excB = r.exc]
    /\ pc' = "return"
    /\ UNCHANGED <<env, req, outcome>>

\* line 315
ReturnManifest ==
    /\ pc = "return"
    /\ outcome' = "returned"
    /\ pc' = "done"
    /\ UNCHANGED <<fs, env, req, loc, hist>>

Next ==
    \/ MakeOutputDir \/ ClearOutputDir \/ NormalizeInput \/ DetectCrs
    \/ ResolveExecutable \/ BuildCommand \/ RunEngine \/ WriteLog
    \/ CheckExitCode \/ CheckManifest \/ RepairRoot \/ RepairPoints \/ ReturnManifest

Spec == Init /\ [][Next]_vars

(***************************************************************************)
(* What the claims speak of: the references of a manifest, by their place.  *)
(***************************************************************************)
\* A step of a place: into the value of a key, or into an entry of a list
K(key) == [key |-> key, idx |-> 0]
I(idx) == [key |-> "", idx |-> idx]

RECURSIVE At(_, _)
At(v, place) ==
    IF place = <<>> THEN v
    ELSE IF Head(place).idx = 0 THEN At(v.kv[Head(place).key], Tail(place))
    ELSE At(v.xs[Head(place).idx], Tail(place))

RECURSIVE SetAt(_, _, _)
SetAt(v, place, val) ==
    IF place = <<>> THEN val
    ELSE IF Head(place).idx = 0
         THEN JDict([v.kv EXCEPT ![Head(place).key] =
                        SetAt(v.kv[Head(place).key], Tail(place), val)])
    ELSE JList([v.xs EXCEPT ![Head(place).idx] =
                        SetAt(v.xs[Head(place).idx], Tail(place), val)])

\* The places of the reference objects reachable from a node: its content, the
\* entries of its contents, and those of the nodes in its children.
RECURSIVE RefPlaces(_)
RefPlaces(node) ==
    IF ~isdict(node) THEN {}
    ELSE (IF "content" \in DOMAIN node.kv /\ isdict(node.kv["content"])
          THEN {<<K("content")>>} ELSE {})
         \cup
         (IF "contents" \in DOMAIN node.kv /\ islist(node.kv["contents"])
          THEN {<<K("contents"), I(i)>> : i \in {j \in 1..Len(node.kv["contents"].xs) :
                                                 isdict(node.kv["contents"].xs[j])}}
          ELSE {})
         \cup
         (IF "children" \in DOMAIN node.kv /\ islist(node.kv["children"])
          THEN UNION {{<<K("children"), I(i)>> \o q : q \in RefPlaces(node.kv["children"].xs[i])} :
                        i \in 1..Len(node.kv["children"].xs)}
          ELSE {})

\* The references of a whole manifest, and those among them with a string uri
DocRefPlaces(doc) ==
    IF isdict(doc) /\ "root" \in DOMAIN doc.kv
    THEN {<<K("root")>> \o q : q \in RefPlaces(doc.kv["root"])}
    ELSE {}

UriPlaces(doc) ==
    {q \in DocRefPlaces(doc) : "uri" \in DOMAIN At(doc, q).kv /\ isstr(At(doc, q).kv["uri"])}

UriAt(doc, q) == At(doc, q).kv["uri"].s

\* The manifest with the uri at each place of Q given the prefix "points/"
\* (how = "prefix") or relieved of its first seven characters (how = "strip")
NewUri(how, u) ==
    IF how = "prefix" THEN POINTS_SLASH \o u ELSE SubSeq(u, Len(POINTS_SLASH) + 1, Len(u))

RECURSIVE Rewritten(_, _, _)
Rewritten(doc, Q, how) ==
    IF Q = {} THEN doc
    ELSE LET q == CHOOSE x \in Q : TRUE IN
         Rewritten(SetAt(doc, q \o <<K("uri")>>, JStr(NewUri(how, UriAt(doc, q)))),
                   Q \ {q}, how)

\* A file of that relative path exists under points/
FileUnderPoints(f, rel) ==
    f.ptsKind = "dir" /\ rel \in DOMAIN f.pts /\ f.pts[rel].k # "dir"

WellFormed(file) ==
    file.k = "json" /\ isdict(file.doc) /\ "root" \in DOMAIN file.doc.kv
    /\ isdict(file.doc.kv["root"])

\* The directory after the i-th run recorded in hist
After(i) == IF i < Len(hist) THEN hist[i + 1].pre ELSE fs

(***************************************************************************)
(* C5: Pass A on a well-formed root manifest, when the write-back is not    *)
(* refused: each reference uri reachable from root becomes "points/" + uri  *)
(* exactly when it starts with "tileset.", ends with ".json", has no "/"    *)
(* and names a file under points/; nothing else changes; the flag returned  *)
(* is true exactly when some uri was rewritten, and the file is written     *)
(* only then.                                                               *)
(***************************************************************************)
BareTilesetName(u) ==
    startswith(u, TILESET_DOT) /\ endswith(u, DOT_JSON) /\ ~contains(u, SLASH)

ToFixA(f) ==
    {q \in UriPlaces(f.root.doc) :
        BareTilesetName(UriAt(f.root.doc, q)) /\ FileUnderPoints(f, UriAt(f.root.doc, q))}

C5_PassAResult ==
    \A i \in 1..Len(hist) :
      LET pre == hist[i].pre
          post == After(i)
      IN (pc = "passA" /\ WellFormed(pre.root)) =>
           /\ TILESET_JSON \notin env.wfail =>
                /\ hist[i].ret = (ToFixA(pre) # {})
                /\ ToFixA(pre) # {} =>
                     post.root = JsonFile("compact",
                                          Rewritten(pre.root.doc, ToFixA(pre), "prefix"))
           /\ ToFixA(pre) = {} => post = pre
           /\ [post EXCEPT !.root = pre.root] = pre

\* A run that rewrote a reference beside references it had to leave alone
C5_Witness ==
    /\ pc = "passA" /\ Len(hist) = 1 /\ hist[1].ret
    /\ WellFormed(hist[1].pre.root)
    /\ \E q \in UriPlaces(fs.root.doc) : UriAt(fs.root.doc, q) = U_PT1
                                         /\ UriAt(hist[1].pre.root.doc, q) = U_T1
    /\ \E q \in UriPlaces(fs.root.doc) : UriAt(fs.root.doc, q) = U_MESH
    /\ FileUnderPoints(fs, U_MESH)

(***************************************************************************)
(* C6: Pass A is idempotent: a run that follows another run on the same     *)
(* directory returns "not modified" and leaves the root manifest file as    *)
(* the run before left it.                                                  *)
(***************************************************************************)
C6_PassAIdempotent ==
    \A i \in 2..Len(hist) :
      pc = "passA" => /\ hist[i].ret = FALSE
                      /\ After(i).root = hist[i].pre.root

\* A second run after a first run that rewrote the manifest
C6_Witness ==
    /\ pc = "passA" /\ Len(hist) = 2 /\ hist[1].ret
    /\ hist[1].pre.root # hist[2].pre.root

(***************************************************************************)
(* C7: Pass B is idempotent: a run that follows another run on the same     *)
(* directory returns a count of 0 and rewrites nothing.                     *)
(***************************************************************************)
C7_PassBIdempotent ==
    \A i \in 2..Len(hist) :
      pc = "passB" => /\ hist[i].ret = 0
                      /\ After(i) = hist[i].pre

(***************************************************************************)
(* C8: Pass B on the manifests it visits (the entries directly under        *)
(* points/ that match tileset.*.json): in each one that parses and whose    *)
(* write-back is not refused, every reference uri that starts with          *)
(* "points/" and whose remainder is a file under points/ is replaced by the *)
(* remainder and nothing else changes; the count returned is the number of  *)
(* visited files rewritten and written back; a file that does not parse is  *)
(* left as it is and takes no part in the count.                            *)
(***************************************************************************)
Visited(f) ==
    IF f.ptsKind = "dir"
    THEN {p \in DOMAIN f.pts : /\ ~contains(p, SLASH)
                               /\ startswith(p, TILESET_DOT) /\ endswith(p, DOT_JSON)
                               /\ Len(p) >= Len(TILESET_DOT) + Len(DOT_JSON)}
    ELSE {}

ToFixB(f, doc) ==
    {q \in UriPlaces(doc) :
        /\ startswith(UriAt(doc, q), POINTS_SLASH)
        /\ FileUnderPoints(f, NewUri("strip", UriAt(doc, q)))}

Repairable(f, p) == f.pts[p].k = "json" /\ ToFixB(f, f.pts[p].doc) # {}

WriteOk(p) == (POINTS_SLASH \o p) \notin env.wfail

C8_PassBResult ==
    \A i \in 1..Len(hist) :
      LET pre == hist[i].pre
          post == After(i)
      IN pc = "passB" =>
           /\ \A p \in Visited(pre) :
                IF Repairable(pre, p)
                THEN WriteOk(p) =>
                       post.pts[p] = JsonFile("compact",
                                              Rewritten(pre.pts[p].doc,
                                                        ToFixB(pre, pre.pts[p].doc), "strip"))
                ELSE post.pts[p] = pre.pts[p]
           /\ hist[i].ret = Cardinality({p \in Visited(pre) : Repairable(pre, p) /\ WriteOk(p)})

\* Two repairable manifests and one that does not parse: a count of 2, with a
\* uri left alone because its remainder is no file under points/
C8_Witness ==
    /\ pc = "passB" /\ Len(hist) = 1 /\ hist[1].ret = 2
    /\ Visited(hist[1].pre) = {U_T1, U_T2, U_T3}
    /\ hist[1].pre.pts[U_T3] = BadFile /\ fs.pts[U_T3] = BadFile
    /\ \E q \in UriPlaces(fs.pts[U_T1].doc) :
          /\ UriAt(fs.pts[U_T1].doc, q) = U_TILE7
          /\ UriAt(hist[1].pre.pts[U_T1].doc, q) = U_PTILE7
    /\ \E q \in UriPlaces(fs.pts[U_T1].doc) : UriAt(fs.pts[U_T1].doc, q) = U_PPTILE7

(***************************************************************************)
(* C10: Pass B changes only files directly under points/ named              *)
(* tileset.<N>.json for an integer N; every other file of the output        *)
(* directory is left as it was.                                             *)
(***************************************************************************)
Digits == {"0", "1", "2", "3", "4", "5", "6", "7", "8", "9"}

TilesetNJson(p) ==
    /\ startswith(p, TILESET_DOT) /\ endswith(p, DOT_JSON)
    /\ Len(p) > Len(TILESET_DOT) + Len(DOT_JSON)
    /\ \A k \in (Len(TILESET_DOT) + 1)..(Len(p) - Len(DOT_JSON)) : p[k] \in Digits

C10_PassBFrame ==
    \A i \in 1..Len(hist) :
      LET pre == hist[i].pre
          post == After(i)
      IN pc = "passB" =>
           /\ post.root = pre.root /\ post.log = pre.log /\ post.ptsKind = pre.ptsKind
           /\ DOMAIN post.pts = DOMAIN pre.pts
           /\ \A p \in DOMAIN pre.pts : ~TilesetNJson(p) => post.pts[p] = pre.pts[p]

(***************************************************************************)
(* C1: when the engine executable resolves nowhere, the call fails with the *)
(* tool-not-found error before the output directory is touched: it is then  *)
(* as the call found it, neither created nor emptied.                       *)
(***************************************************************************)
C1_ToolNotFoundBeforeMutation ==
    outcome = "tool_not_found" => fs = hist.fs0

(***************************************************************************)
(* C2: once the engine was launched, the captured output is in              *)
(* tiles_log.txt before the exit code is checked and before the manifest    *)
(* is looked for, so every way the call ends finds the log written.         *)
(***************************************************************************)
C2_LogBeforeChecks ==
    /\ pc \in {"check_rc", "check_manifest", "passA", "passB", "return"} =>
         fs.log = LogFile(loc.stdout)
    /\ (hist.launched /\ pc = "done") =>
         /\ outcome \in {"returned", "execution_failed", "missing_output"}
         /\ fs.log = LogFile(loc.stdout)

\* A failed engine run in a directory that held the log of an earlier run
C2_Witness ==
    /\ pc = "done" /\ outcome = "execution_failed"
    /\ hist.fs0.log = LogFile("old run") /\ ~req.overwrite
    /\ fs.log = LogFile("engine: error")

(***************************************************************************)
(* C3: a nonzero exit code always ends in the execution-failed error; a     *)
(* zero exit code with no root manifest produced always ends in the         *)
(* missing-output error; the manifest path is returned only after a zero    *)
(* exit code with the manifest present; no failure runs Pass A or Pass B.   *)
(***************************************************************************)
C3_OutcomeClassification ==
    (hist.launched /\ pc = "done") =>
      /\ loc.returncode # 0 => outcome = "execution_failed"
      /\ (loc.returncode = 0 /\ ~hist.produced) => outcome = "missing_output"
      /\ outcome = "returned" => (loc.returncode = 0 /\ tileset_json_exists(fs))
      /\ outcome \in {"execution_failed", "missing_output"} => (~hist.ranA /\ ~hist.ranB)

Has(cmd, flag) == \E i \in 1..Len(cmd) : cmd[i] = flag
HasWith(cmd, flag, value) == \E i \in 1..(Len(cmd) - 1) : cmd[i] = flag /\ cmd[i + 1] = value
Requested(x) == x \notin {PyNone, ""}

C9_CommandLine ==
    loc.cmd # <<>> =>
      /\ Has(loc.cmd, "--srs_out") = (loc.has_crs /\ Requested(req.srs_out))
      /\ Has(loc.cmd, "--pyproj-always-xy") = (loc.has_crs /\ Requested(req.srs_out))
      /\ Has(loc.cmd, "--srs_out") => HasWith(loc.cmd, "--srs_out", req.srs_out)
      /\ Has(loc.cmd, "--extra-fields") = Requested(req.extra_fields)
      /\ Has(loc.cmd, "--extra-fields") => HasWith(loc.cmd, "--extra-fields", req.extra_fields)
      /\ HasWith(loc.cmd, "--out", OUTPUT_DIR)
      /\ loc.cmd[Len(loc.cmd)] = loc.tiles_input

\* No CRS metadata detected, an output CRS and extra fields requested
C9_Witness ==
    /\ loc.cmd # <<>> /\ ~loc.has_crs /\ req.srs_out = "4978"
    /\ req.extra_fields = "PredInstance"
    /\ ~Has(loc.cmd, "--srs_out") /\ Has(loc.cmd, "--extra-fields")

====
